---- MODULE Spec2Model ----
(***************************************************************************)
(* Conversation session and response normalisation of the vLLM minimal     *)
(* front end (src/src/main.ts, src/src/api.ts).                            *)
(*                                                                         *)
(* The page is event driven: every action below is one event listener, one *)
(* promise continuation or one timer callback of bootstrap(), run to       *)
(* completion.  The transport (fetch) is the environment: it settles the   *)
(* promise of each generateText call once.                                 *)
(***************************************************************************)
EXTENDS Integers, Sequences, FiniteSets, TLC

----------------------------------------------------------------------------
(* Bounds *)

MaxSubmits == 2
MaxTok == 1
MaxFields == 2
MaxMs == 2
MaxParts == 2
MaxTextLen == 4
MaxModels == 2
MaxLoads == 3
MaxTurns == 1
MaxConcurrentLoads == 2

----------------------------------------------------------------------------
(* Strings are sequences of characters; a fixed message is a one-element   *)
(* sequence holding the whole text.                                        *)

\* The field values tried: empty, blank, and text with and without blanks
\* around it.
Strings == {<<>>, <<" ">>, <<"a">>, <<" ", "a", " ">>}

\* what String.prototype.trim removes, among the characters used here
IsSpace(c) == c \in {" ", "\n"}

RECURSIVE trimStart(_)
trimStart(s) ==
  IF s = <<>> THEN <<>>
  ELSE IF IsSpace(Head(s)) THEN trimStart(Tail(s)) ELSE s

RECURSIVE trimEnd(_)
trimEnd(s) ==
  IF s = <<>> THEN <<>>
  ELSE IF IsSpace(s[Len(s)]) THEN trimEnd(SubSeq(s, 1, Len(s) - 1)) ELSE s

trim(s) == trimEnd(trimStart(s))

\* The values tried for the model field: empty, blank, filled.
FieldValues == {<<>>, <<" ">>, <<"a", " ">>}

\* The values tried for the endpoint field: blank, filled.
EndpointValues == {<<" ">>, <<"a">>}

ApiMode == {"vllm-generate", "openai-completions", "openai-chat"}

DEFAULT_BASE == <<"http://127.0.0.1:8000">>

MODE_ENDPOINTS == [m \in ApiMode |->
  CASE m = "vllm-generate" -> <<"/generate">>
    [] m = "openai-completions" -> <<"/v1/completions">>
    [] OTHER -> <<"/v1/chat/completions">>]

getDefaultEndpoint(mode) == MODE_ENDPOINTS[mode]

resolveBaseUrl == DEFAULT_BASE

\* the two Korean texts of main.ts:1064 and main.ts:1116, named in ASCII
WaitingNotice == <<"(waiting for the model response...)">>
CancelNotice == <<"(the request was cancelled.)">>
HiddenReasoningOnly == <<"[Hidden reasoning only]">>
NoTextReturned == <<"No text returned by the server.">>
UnknownError == <<"An unknown error occurred.">>
TransportMessage == <<"Request failed with 500: Internal Server Error">>

----------------------------------------------------------------------------
VARIABLES
  conversation,    \* ConversationEntry[] of bootstrap()
  messageCounter,  \* module-level counter behind createMessageId
  controller,      \* the AbortController variable: 0 is undefined, else a call
  calls,           \* the generateText calls made so far, one per accepted submit
  timers,          \* entries with an 800 ms "fresh" timeout outstanding
  submitDisabled,  \* elements.submitButton.disabled
  cancelDisabled,  \* elements.cancelButton.disabled
  status,          \* data-status of the status line
  errorBox,        \* text of the error box, "" when hidden
  ci,              \* extractUsage: index of the next candidate, 0 before the call
  stats,           \* extractUsage: the UsageStats being accumulated
  foundTotals,     \* the numbers met so far under a total field name
  durationMs,      \* success path: performance.now() - requestStartedAt
  tokensPerSecond, \* success path: the rate derived from usage and durationMs
  arg,             \* the argument of the pure function under study
  result,          \* what that function returned
  done,            \* whether it has returned
  apiMode,         \* elements.apiMode.value
  loadingModels,   \* the loadingModels flag of bootstrap()
  refreshDisabled, \* elements.refreshModels.disabled
  modelList,       \* the modelList of bootstrap()
  loads            \* the loadModels calls that reached listModels, in order

vars == <<conversation, messageCounter, controller, calls, timers,
          submitDisabled, cancelDisabled, status, errorBox, ci, stats,
          foundTotals, durationMs, tokensPerSecond, arg, result, done,
          apiMode, loadingModels, refreshDisabled, modelList, loads>>

sessionVars == <<conversation, messageCounter, controller, calls, timers,
                 submitDisabled, cancelDisabled, status, errorBox>>

usageVars == <<ci, stats, foundTotals, durationMs, tokensPerSecond>>

pureVars == <<arg, result, done>>

catalogVars == <<apiMode, loadingModels, refreshDisabled, modelList, loads>>

functionVars == <<usageVars, pureVars, catalogVars>>

undefined == -1

----------------------------------------------------------------------------
(* JSON values as response.json() returns them, tagged with their type.    *)

Undef == [t |-> "undefined"]
Null == [t |-> "null"]
Str(s) == [t |-> "string", v |-> s]
Num(n) == [t |-> "number", v |-> n]
Arr(items) == [t |-> "array", v |-> items]
Obj(fields) == [t |-> "object", v |-> fields]

\* An object literal: a key whose value is undefined is absent.
object(fields) ==
  Obj([k \in {key \in DOMAIN fields : fields[key].t # "undefined"} |-> fields[k]])

EmptyObject == Obj([k \in {} |-> Undef])

\* value && typeof value === "object": arrays are objects, null is not.
isObjectLike(value) == value.t \in {"object", "array"}

\* key in value
hasKey(value, key) == value.t = "object" /\ key \in DOMAIN value.v

\* value[key] for a named key; an array has none of the keys read here.
get(value, key) == IF hasKey(value, key) THEN value.v[key] ELSE Undef

isArrayNonEmpty(value) == value.t = "array" /\ value.v # <<>>
isArray(value) == value.t = "array"

isString(value) == value.t = "string"

\* JSON.stringify of the non-string items that occur in a text array.
JSONstringify(value) ==
  CASE value.t = "null" -> <<"null">>
    [] value.t = "number" -> <<ToString(value.v)>>

\* items.filter(Boolean) on mapped items (strings or undefined), as string[].
filterBoolean(items) ==
  LET kept == SelectSeq(items, LAMBDA item : isString(item) /\ item.v # <<>>)
  IN [i \in DOMAIN kept |-> kept[i].v]

RECURSIVE join(_)
\* parts.join(""), a text being the sequence of its characters
join(parts) == IF parts = <<>> THEN <<>> ELSE Head(parts) \o join(Tail(parts))

SeqsUpTo(S, n) == UNION {[1..len -> S] : len \in 0..n}

----------------------------------------------------------------------------
(* extractTextsFromPayload (api.ts:27-114).                                *)

mapTextItem(item) == IF isString(item) THEN item ELSE Str(JSONstringify(item))

mapOutput(item) ==
  IF ~isObjectLike(item) THEN Undef
  ELSE IF isString(get(item, "text")) THEN get(item, "text")
  ELSE IF isString(get(item, "output_text")) THEN get(item, "output_text")
  ELSE Undef

mapPartContentFirst(item) ==
  IF ~isObjectLike(item) THEN <<>>
  ELSE IF isString(get(item, "content")) THEN get(item, "content").v
  ELSE IF isString(get(item, "text")) THEN get(item, "text").v
  ELSE <<>>
mapPart(item) ==
  IF ~isObjectLike(item) THEN <<>>
  ELSE IF isString(get(item, "text")) THEN get(item, "text").v
  ELSE IF isString(get(item, "content")) THEN get(item, "content").v
  ELSE <<>>

mapChoice(choice) ==
  IF ~isObjectLike(choice) THEN Undef
  ELSE IF isString(get(choice, "text")) THEN get(choice, "text")
  ELSE LET message == get(choice, "message")
       IN IF isObjectLike(message) /\ hasKey(message, "content")
          THEN LET content == get(message, "content")
               IN IF isString(content) THEN content
                  ELSE IF isArray(content)
                  THEN Str(join([i \in DOMAIN content.v |-> mapPart(content.v[i])]))
                  ELSE Undef
          ELSE Undef

extractTextsFromPayload(payload) ==
  IF ~isObjectLike(payload) THEN <<>>
  ELSE IF isArray(get(payload, "text"))
  THEN LET text == get(payload, "text").v
       IN filterBoolean([i \in DOMAIN text |-> mapTextItem(text[i])])
  ELSE IF isArray(get(payload, "outputs"))
  THEN LET outputs == get(payload, "outputs").v
       IN filterBoolean([i \in DOMAIN outputs |-> mapOutput(outputs[i])])
  ELSE IF isArray(get(payload, "choices"))
  THEN LET choices == get(payload, "choices").v
       IN filterBoolean([i \in DOMAIN choices |-> mapChoice(choices[i])])
  ELSE IF isString(get(payload, "generated_text"))
  THEN <<get(payload, "generated_text").v>>
  ELSE <<>>

----------------------------------------------------------------------------
(* splitThinkingSegments (main.ts:110-130).  A text is a sequence of       *)
(* characters in which a tag is one element; "<THINK>" and "</THINK>"      *)
(* stand for any spelling of the tag that is not all lower case.           *)

OpenTags == {"<think>", "<THINK>"}
CloseTags == {"</think>", "</THINK>"}
Characters == OpenTags \cup CloseTags \cup {"a", " ", "\n"}

Texts == SeqsUpTo(Characters, MaxTextLen)

\* text.includes(search): an exact, case-sensitive search
includes(text, search) == \E i \in DOMAIN text : text[i] = search

\* The least index from `from` on whose character is in S, 0 when none.
firstIndex(text, from, S) ==
  LET found == {i \in from..Len(text) : text[i] \in S}
  IN IF found = {} THEN 0 ELSE CHOOSE i \in found : \A j \in found : i <= j

\* pattern.exec(text) with lastIndex = from - 1, for the pattern
\* /<think>([\s\S]*?)<\/think>/gi: the leftmost opening tag that has a
\* closing tag after it, up to the first such closing tag; <<0, 0>> is null.
exec(text, from) ==
  LET open == firstIndex(text, from, OpenTags)
  IN IF open = 0 THEN <<0, 0>>
     ELSE LET close == firstIndex(text, open + 1, CloseTags)
          IN IF close = 0 THEN <<0, 0>> ELSE <<open, close>>

RECURSIVE matchAll(_, _)
\* The matches of the global scan, left to right.
matchAll(text, from) ==
  LET match == exec(text, from)
  IN IF match = <<0, 0>> THEN <<>>
     ELSE <<match>> \o matchAll(text, match[2] + 1)

\* The while loop of main.ts:120-125.
segments(text) ==
  LET matches == matchAll(text, 1)
      trimmed == [i \in DOMAIN matches |->
                    trim(SubSeq(text, matches[i][1] + 1, matches[i][2] - 1))]
  IN SelectSeq(trimmed, LAMBDA segment : segment # <<>>)

\* text.replace(pattern, "")
replacePattern(text) ==
  LET matches == matchAll(text, 1)
      kept == {i \in DOMAIN text :
                 \A m \in DOMAIN matches : i < matches[m][1] \/ i > matches[m][2]}
      keep[i \in 0..Len(text)] ==
        IF i = 0 THEN <<>>
        ELSE IF i \in kept THEN Append(keep[i - 1], text[i]) ELSE keep[i - 1]
  IN keep[Len(text)]

RECURSIVE collapseNewlines(_, _)
\* text.replace(/\n{3,}/g, "\n\n"); run is the number of newlines just seen.
collapseNewlines(text, run) ==
  IF text = <<>> THEN <<>>
  ELSE IF Head(text) = "\n"
  THEN IF run >= 2 THEN collapseNewlines(Tail(text), run + 1)
       ELSE <<"\n">> \o collapseNewlines(Tail(text), run + 1)
  ELSE <<Head(text)>> \o collapseNewlines(Tail(text), 0)

splitThinkingSegments(text) ==
  IF ~includes(text, "<think>")
  THEN [visible |-> text, reasoning |-> <<>>]
  ELSE [visible |-> trim(collapseNewlines(replacePattern(text), 0)),
        reasoning |-> segments(text)]

----------------------------------------------------------------------------
(* The conversation session: submit, cancel, settle, "fresh" timer.        *)

\* The response bodies a call can bring: a chat completion with a visible
\* text, a text made of one think region, and a body of no recognized shape.
Responses ==
  {Obj([choices |-> Arr(<<Obj([message |-> Obj([content |-> Str(<<"a">>)])])>>)]),
   Obj([text |-> Arr(<<Str(<<"<think>", "a", "</think>">>)>>)]),
   Obj([choices |-> Str(<<"a">>)])}

RECURSIVE joinWith(_, _)
\* parts.join(separator)
joinWith(parts, separator) ==
  IF Len(parts) <= 1 THEN join(parts)
  ELSE Head(parts) \o separator \o joinWith(Tail(parts), separator)

\* processedOutputs, visibleParts and reasoningSegments of main.ts:1085-1089.
visiblePartsOf(texts) ==
  SelectSeq([i \in DOMAIN texts |-> trim(splitThinkingSegments(texts[i]).visible)],
            LAMBDA part : Len(part) > 0)

reasoningSegmentsOf(texts) ==
  join([i \in DOMAIN texts |-> splitThinkingSegments(texts[i]).reasoning])

displayContent(r) ==
  LET texts == extractTextsFromPayload(r)
      visibleParts == visiblePartsOf(texts)
      reasoningSegments == reasoningSegmentsOf(texts)
  IN IF Len(visibleParts) > 0 THEN joinWith(visibleParts, <<"\n", "\n">>)
     ELSE IF Len(reasoningSegments) > 0 THEN HiddenReasoningOnly
     ELSE NoTextReturned

\* The ways the promise of generateText settles: fulfilled ("ok"), rejected
\* by controller.abort() ("AbortError"), rejected with an Error ("Error").
Outcomes == {"ok", "AbortError", "Error"}

NoResponse == Undef

createMessageId == messageCounter

userMessage(userPrompt) ==
  [id |-> createMessageId, role |-> "user", content |-> userPrompt,
   pending |-> FALSE, error |-> FALSE, fresh |-> FALSE]

assistantMessage ==
  [id |-> createMessageId + 1, role |-> "assistant", content |-> WaitingNotice,
   pending |-> TRUE, error |-> FALSE, fresh |-> FALSE]

addMessageUnshift(conv, entry) == <<entry>> \o conv
addMessage(conv, entry) == Append(conv, entry)

\* Object.assign(target, updates): only the keys of updates change.
assign(target, updates) ==
  [k \in DOMAIN target |-> IF k \in DOMAIN updates THEN updates[k] ELSE target[k]]

updateMessage(conv, target, updates) ==
  [conv EXCEPT ![target] = assign(conv[target], updates)]

\* The entry a suspended handler updates: the assistantMessage object its
\* closure created, which is the entry at the index it was pushed to.
targetOfLast(k) == Len(conversation)
targetOf(k) == calls[k].target

\* displayContent, tabulated once over the bodies studied.
displayContents == [r \in Responses |-> displayContent(r)]

successUpdatesErrorOnEmpty(r) ==
  [content |-> displayContents[r], pending |-> FALSE,
   error |-> (displayContents[r] = NoTextReturned), fresh |-> TRUE]
successUpdates(r) ==
  [content |-> displayContents[r], pending |-> FALSE, error |-> FALSE,
   fresh |-> TRUE]

isAbortErrorNever(outcome) == FALSE
isAbortError(outcome) == outcome = "AbortError"

catchUpdates(outcome) ==
  IF isAbortError(outcome)
  THEN [content |-> CancelNotice, pending |-> FALSE, error |-> TRUE]
  ELSE IF outcome = "Error"
  THEN [content |-> TransportMessage, pending |-> FALSE, error |-> TRUE]
  ELSE [content |-> UnknownError, pending |-> FALSE, error |-> TRUE]

catchStatus(outcome) == IF isAbortError(outcome) THEN "ready" ELSE "error"

catchErrorBox(outcome) ==
  IF isAbortError(outcome) THEN "Request cancelled."
  ELSE IF outcome = "Error" THEN TransportMessage[1]
  ELSE UnknownError[1]

\* formatMetadata: the label pushed after the time and the numbers.
formatMetadata(entry) ==
  IF entry.error THEN "Error" ELSE IF entry.pending THEN "Pending" ELSE ""

\* The validation of the submit listener: "" when the input is accepted.
validationSkipTrim(promptValue, mode, modelValue, endpointValue) ==
  IF promptValue = <<>> THEN "Please enter a message before sending."
  ELSE IF mode # "vllm-generate" /\ modelValue = <<>>
  THEN "Model ID is required for OpenAI-compatible endpoints."
  ELSE ""
validation(promptValue, mode, modelValue, endpointValue) ==
  LET userPrompt == trim(promptValue)
      base == resolveBaseUrl
      endpoint == IF trim(endpointValue) # <<>> THEN trim(endpointValue)
                  ELSE getDefaultEndpoint(mode)
  IN IF userPrompt = <<>> THEN "Please enter a message before sending."
     ELSE IF base = <<>> \/ endpoint = <<>>
     THEN "Both API base URL and endpoint path are required."
     ELSE IF mode # "vllm-generate" /\ trim(modelValue) = <<>>
     THEN "Model ID is required for OpenAI-compatible endpoints."
     ELSE ""

\* The "submit" listener of the form, up to its await.  The field values it
\* reads are its inputs.  The listener reads neither controller nor the
\* pending flags; between its await and its finally block only the Send
\* button is disabled (submitDisabled), which stops a click on the button but
\* not a submit event that reaches the form another way (requestSubmit, a
\* dispatched event).  persistFromControls, the clearing of the prompt field
\* and the focus change write no variable of this model.
Submit(promptValue, mode, modelValue, endpointValue) ==
  LET message == validation(promptValue, mode, modelValue, endpointValue)
      userPrompt == trim(promptValue)
  IN IF message # ""
     THEN /\ errorBox' = message
          /\ UNCHANGED <<conversation, messageCounter, controller, calls,
                         timers, submitDisabled, cancelDisabled, status>>
     ELSE /\ Len(calls) < MaxSubmits
          /\ errorBox' = ""
          /\ conversation' =
               addMessage(addMessage(conversation, userMessage(userPrompt)),
                          assistantMessage)
          /\ messageCounter' = messageCounter + 2
          /\ calls' = Append(calls,
               [target |-> Len(conversation) + 2, pc |-> "await",
                outcome |-> "none", aborted |-> FALSE, net |-> "open",
                response |-> NoResponse])
          /\ controller' = Len(calls) + 1
          /\ submitDisabled' = TRUE
          /\ cancelDisabled' = FALSE
          /\ status' = "loading"
          /\ UNCHANGED timers

SubmitEvent ==
  /\ \E promptValue \in Strings, mode \in ApiMode,
        modelValue \in FieldValues, endpointValue \in EndpointValues :
       Submit(promptValue, mode, modelValue, endpointValue)
  /\ UNCHANGED functionVars

\* The "click" listener of the cancel button: controller.abort() rejects the
\* fetch of that controller's call unless it has settled already.
abortDirect(k) ==
  /\ calls' = [calls EXCEPT ![k].aborted = TRUE,
                            ![k].outcome = IF @ = "none" THEN "AbortError" ELSE @]
  /\ conversation' = updateMessage(conversation, calls[k].target,
                                   catchUpdates("AbortError"))
abort(k) ==
  /\ calls' = [calls EXCEPT ![k].aborted = TRUE,
                            ![k].outcome = IF @ = "none" THEN "AbortError" ELSE @]
  /\ UNCHANGED conversation

Cancel ==
  /\ IF controller # 0 THEN abort(controller)
     ELSE UNCHANGED <<calls, conversation>>
  /\ UNCHANGED <<messageCounter, controller, timers, submitDisabled,
                 cancelDisabled, status, errorBox, functionVars>>

\* The transport: the response of call k has been received in full and the
\* resumption of its handler is queued.  It decides the outcome only when an
\* abort has not rejected the call before; from then on controller.abort()
\* rejects nothing.
TransportSuccess(k, r) ==
  /\ calls[k].net = "open"
  /\ calls' = [calls EXCEPT ![k].net = "ok",
                            ![k].outcome = IF @ = "none" THEN "ok" ELSE @,
                            ![k].response = IF calls[k].outcome = "none" THEN r ELSE @]
  /\ UNCHANGED <<conversation, messageCounter, controller, timers,
                 submitDisabled, cancelDisabled, status, errorBox, functionVars>>

TransportFailure(k) ==
  /\ calls[k].net = "open"
  /\ calls' = [calls EXCEPT ![k].net = "fail",
                            ![k].outcome = IF @ = "none" THEN "Error" ELSE @]
  /\ UNCHANGED <<conversation, messageCounter, controller, timers,
                 submitDisabled, cancelDisabled, status, errorBox, functionVars>>

\* The finally block of the submit listener.
finallyKeepOnError(k) ==
  IF calls[k].outcome = "ok"
  THEN /\ controller' = 0
       /\ submitDisabled' = FALSE
       /\ cancelDisabled' = TRUE
  ELSE UNCHANGED <<controller, submitDisabled, cancelDisabled>>
finally(k) ==
  /\ controller' = 0
  /\ submitDisabled' = FALSE
  /\ cancelDisabled' = TRUE

\* The continuation of the submit listener after await generateText.
Settle(k) ==
  /\ calls[k].pc = "await"
  /\ calls[k].outcome # "none"
  /\ LET target == targetOf(k)
         outcome == calls[k].outcome
     IN IF outcome = "ok"
        THEN /\ conversation' = updateMessage(conversation, target,
                                              successUpdates(calls[k].response))
             /\ timers' = timers \cup {target}
             /\ status' = "ready"
             /\ UNCHANGED errorBox
        ELSE /\ conversation' = updateMessage(conversation, target,
                                              catchUpdates(outcome))
             /\ status' = catchStatus(outcome)
             /\ errorBox' = catchErrorBox(outcome)
             /\ UNCHANGED timers
  /\ finally(k)
  /\ calls' = [calls EXCEPT ![k].pc = "done"]
  /\ UNCHANGED <<messageCounter, functionVars>>

\* The setTimeout callback of updateMessage.
freshTimeoutUnchecked(target) ==
  [conversation EXCEPT ![target] = assign(@, [fresh |-> FALSE, pending |-> TRUE])]
freshTimeout(target) ==
  IF conversation[target].fresh
  THEN [conversation EXCEPT ![target].fresh = FALSE]
  ELSE conversation

FreshTimer(target) ==
  /\ target \in timers
  /\ timers' = timers \ {target}
  /\ conversation' = freshTimeout(target)
  /\ UNCHANGED <<messageCounter, controller, calls, submitDisabled,
                 cancelDisabled, status, errorBox, functionVars>>

----------------------------------------------------------------------------
(* The model catalog: loadModels, applyModeEffects and the listeners that  *)
(* call them (main.ts:836-945, 1156-1159).  The endpoint and model fields  *)
(* they write are inputs of the submit listener in this model.             *)

\* <<>> stands for a mode without a model list path.
MODEL_LIST_PATHS == [m \in ApiMode |->
  IF m = "vllm-generate" THEN <<>> ELSE <<"/v1/models">>]

getModelListPath(mode) == MODEL_LIST_PATHS[mode]

\* What listModels can return to request k: no descriptor, or one, named
\* after the request.
Listings(k) == {<<>>, <<k>>}

RECURSIVE reverse(_)
reverse(s) == IF s = <<>> THEN <<>> ELSE Append(reverse(Tail(s)), Head(s))

updateTokenStatsDisplayInPlace(conv) == reverse(conv)
\* updateTokenStatsDisplay searches a reversed copy of conversation; the
\* conversation it leaves is the one it found.
updateTokenStatsDisplay(conv) == conv

\* loadModels up to its await, called while the mode field holds `mode`.
loadModels(mode, force) ==
  LET path == getModelListPath(mode)
  IN IF path = <<>>
     THEN /\ modelList' = <<>>
          /\ loadingModels' = FALSE
          /\ refreshDisabled' = FALSE
          /\ UNCHANGED loads
     ELSE IF loadingModels /\ ~force
     THEN UNCHANGED <<modelList, loadingModels, refreshDisabled, loads>>
     ELSE /\ loadingModels' = TRUE
          /\ refreshDisabled' = TRUE
          /\ loads' = Append(loads, [mode |-> mode, pc |-> "await"])
          /\ UNCHANGED modelList

\* applyModeEffects(false)
applyModeEffects(mode) ==
  IF mode = "vllm-generate"
  THEN /\ modelList' = <<>>
       /\ UNCHANGED <<loadingModels, refreshDisabled, loads>>
  ELSE loadModels(mode, TRUE)

\* The "change" listener of the mode field.
ModeChange(mode) ==
  /\ mode # apiMode
  /\ getModelListPath(mode) # <<>> => Len(loads) < MaxLoads
  /\ apiMode' = mode
  /\ applyModeEffects(mode)
  /\ UNCHANGED <<sessionVars, usageVars, pureVars>>

\* The "click" listener of the refresh button, which sits in the model
\* field: hidden in vllm-generate mode, and without clicks while disabled.
RefreshClick ==
  /\ apiMode # "vllm-generate"
  /\ ~refreshDisabled
  /\ Len(loads) < MaxLoads
  /\ loadModels(apiMode, TRUE)
  /\ UNCHANGED <<apiMode, sessionVars, usageVars, pureVars>>

sessionRest == <<messageCounter, controller, calls, timers, submitDisabled,
                 cancelDisabled, status, errorBox>>

\* loadModels from its await on, listModels having returned `listing`.
ListingSuccess(k, listing) ==
  /\ loads[k].pc = "await"
  /\ loads' = [loads EXCEPT ![k].pc = "done"]
  /\ IF apiMode # loads[k].mode
     THEN UNCHANGED <<modelList, conversation>>
     ELSE /\ modelList' = listing
          /\ conversation' = IF Len(listing) = 0
                             THEN updateTokenStatsDisplay(conversation)
                             ELSE conversation
  /\ loadingModels' = FALSE
  /\ refreshDisabled' = FALSE
  /\ UNCHANGED <<apiMode, sessionRest, usageVars, pureVars>>

\* loadModels from its await on, listModels having thrown.
ListingFailure(k) ==
  /\ loads[k].pc = "await"
  /\ loads' = [loads EXCEPT ![k].pc = "done"]
  /\ modelList' = <<>>
  /\ loadingModels' = FALSE
  /\ refreshDisabled' = FALSE
  /\ UNCHANGED <<apiMode, sessionVars, usageVars, pureVars>>

\* The catalog after bootstrap(): applyModeEffects(true) has started a
\* listing request unless the stored mode is vllm-generate.
InitCatalog ==
  /\ apiMode \in ApiMode
  /\ modelList = <<>>
  /\ IF getModelListPath(apiMode) = <<>>
     THEN loadingModels = FALSE /\ refreshDisabled = FALSE /\ loads = <<>>
     ELSE /\ loadingModels = TRUE
          /\ refreshDisabled = TRUE
          /\ loads = <<[mode |-> apiMode, pc |-> "await"]>>

ModeChanges == \E mode \in ApiMode : ModeChange(mode)
ListingSucceeds ==
  \E k \in 1..Len(loads) : \E listing \in Listings(k) : ListingSuccess(k, listing)
ListingFails == \E k \in 1..Len(loads) : ListingFailure(k)

InitSession ==
  /\ conversation = <<>>
  /\ messageCounter = 0
  /\ controller = 0
  /\ calls = <<>>
  /\ timers = {}
  /\ submitDisabled = FALSE
  /\ cancelDisabled = TRUE
  /\ status = "ready"
  /\ errorBox = ""

InitUsageIdle ==
  /\ ci = 0
  /\ stats = [promptTokens |-> undefined, completionTokens |-> undefined,
              totalTokens |-> undefined]
  /\ foundTotals = {}
  /\ durationMs = 0
  /\ tokensPerSecond = undefined

\* No pure function is under study.
InitPureIdle ==
  /\ arg = <<>>
  /\ result = <<>>
  /\ done = FALSE

\* The catalog after bootstrap() with the stored mode vllm-generate:
\* applyModeEffects(true) starts no listing request.
InitCatalogIdle ==
  /\ apiMode = "vllm-generate"
  /\ loadingModels = FALSE
  /\ refreshDisabled = FALSE
  /\ modelList = <<>>
  /\ loads = <<>>

Init == InitSession /\ InitUsageIdle /\ InitPureIdle /\ InitCatalogIdle

TransportSucceeds == \E k \in 1..Len(calls), r \in Responses : TransportSuccess(k, r)
TransportFails == \E k \in 1..Len(calls) : TransportFailure(k)
Settles == \E k \in 1..Len(calls) : Settle(k)
FreshTimerFires == \E target \in timers : FreshTimer(target)

Next ==
  \/ SubmitEvent
  \/ Cancel
  \/ TransportSucceeds
  \/ TransportFails
  \/ Settles
  \/ FreshTimerFires

Spec == Init /\ [][Next]_vars

\* The transport reports every call and a settled promise resumes its handler.
FairSpec ==
  /\ Spec
  /\ WF_vars(TransportSucceeds \/ TransportFails)
  /\ WF_vars(Settles)

\* A timeout set with window.setTimeout runs in the end.
FairSpecTimers ==
  /\ FairSpec
  /\ WF_vars(FreshTimerFires)

NextCatalog ==
  \/ ModeChanges
  \/ RefreshClick
  \/ ListingSucceeds
  \/ ListingFails

\* The page after bootstrap(), whatever mode was stored.
InitBootstrap == InitSession /\ InitUsageIdle /\ InitPureIdle /\ InitCatalog

SpecCatalog == InitBootstrap /\ [][NextCatalog]_vars

\* The session and the catalog side by side: the listeners of both are
\* registered on the same page and their requests are in flight together.
NextConcurrent ==
  \/ (Len(calls) < MaxTurns /\ SubmitEvent)
  \/ Cancel
  \/ TransportSucceeds
  \/ TransportFails
  \/ Settles
  \/ FreshTimerFires
  \/ (Len(loads) < MaxConcurrentLoads /\ ModeChanges)
  \/ (Len(loads) < MaxConcurrentLoads /\ RefreshClick)
  \/ ListingSucceeds
  \/ ListingFails

SpecConcurrent == InitBootstrap /\ [][NextConcurrent]_vars

----------------------------------------------------------------------------
(* extractUsage (main.ts:166-231), one step per candidate of its loop.     *)

\* A JSON value that is not a number (a string, say), as a field's value.
NotANumber == -2

FieldNames ==
  {"completion_tokens", "prompt_tokens", "total_tokens", "generated_tokens",
   "num_generated_tokens", "num_output_tokens", "output_tokens",
   "num_input_tokens", "input_tokens", "prompt_token_count",
   "generated_token_count", "total_token_count"}

UsageValues == (0..MaxTok) \cup {NotANumber}

\* JSON objects with at most MaxFields of the fields extractUsage reads.
Records ==
  UNION {[D -> UsageValues] :
           D \in {S \in SUBSET FieldNames : Cardinality(S) <= MaxFields}}

\* JSON nodes: absent, null, a non-object value, or an object.
NonObjects == {[kind |-> "undefined"], [kind |-> "null"], [kind |-> "string"]}
Nodes == NonObjects \cup {[kind |-> "object", fields |-> r] : r \in Records}

isNullish(node) == node.kind \in {"undefined", "null"}

\* a ?? b ?? c
coalesce(a, b, c) == IF ~isNullish(a) THEN a ELSE IF ~isNullish(b) THEN b ELSE c

isObject(node) == node.kind = "object"

isNumber(record, key) == key \in DOMAIN record /\ record[key] >= 0

\* stats.field = record.key
assignField(s, record, key, field) ==
  IF isNumber(record, key) THEN [s EXCEPT ![field] = record[key]] ELSE s

\* stats.field ??= record.key
assignIfUnset(s, record, key, field) ==
  IF isNumber(record, key) /\ s[field] = undefined
  THEN [s EXCEPT ![field] = record[key]] ELSE s

\* if (!stats.totalTokens && typeof record.total_token_count === "number")
assignTotalCount(s, record) ==
  IF (s.totalTokens = undefined \/ s.totalTokens = 0)
     /\ isNumber(record, "total_token_count")
  THEN [s EXCEPT !.totalTokens = record["total_token_count"]] ELSE s

\* The body of the loop over the candidates, statement by statement.
mergeCandidate(s, node) ==
  IF ~isObject(node) THEN s
  ELSE
    LET record == node.fields
        s1 == assignField(s, record, "completion_tokens", "completionTokens")
        s2 == assignField(s1, record, "prompt_tokens", "promptTokens")
        s3 == assignField(s2, record, "total_tokens", "totalTokens")
        s4 == assignIfUnset(s3, record, "generated_tokens", "completionTokens")
        s5 == assignIfUnset(s4, record, "num_generated_tokens", "completionTokens")
        s6 == assignIfUnset(s5, record, "num_output_tokens", "completionTokens")
        s7 == assignIfUnset(s6, record, "output_tokens", "completionTokens")
        s8 == assignIfUnset(s7, record, "num_input_tokens", "promptTokens")
        s9 == assignIfUnset(s8, record, "input_tokens", "promptTokens")
        s10 == assignIfUnset(s9, record, "prompt_token_count", "promptTokens")
        s11 == assignIfUnset(s10, record, "generated_token_count", "completionTokens")
    IN assignTotalCount(s11, record)

\* The statement after the loop.
synthesizeTotalFalsy(s) ==
  IF (s.totalTokens = undefined \/ s.totalTokens = 0)
     /\ s.promptTokens # undefined /\ s.completionTokens # undefined
  THEN [s EXCEPT !.totalTokens = s.promptTokens + s.completionTokens]
  ELSE s
synthesizeTotal(s) ==
  IF s.totalTokens = undefined /\ s.promptTokens # undefined
     /\ s.completionTokens # undefined
  THEN [s EXCEPT !.totalTokens = s.promptTokens + s.completionTokens]
  ELSE s

\* The numbers a candidate holds under a total field name.
totalsOf(node) ==
  IF ~isObject(node) THEN {}
  ELSE {node.fields[key] :
          key \in {k \in {"total_tokens", "total_token_count"} :
                     isNumber(node.fields, k)}}

\* One turn of the loop over the candidates.
mergeStep(node) ==
  /\ stats' = mergeCandidate(stats, node)
  /\ foundTotals' = foundTotals \cup totalsOf(node)

\* extractUsage is entered: a payload that is no object returns at once.
UsageStart ==
  /\ ci = 0
  /\ \E payloadIsObject \in BOOLEAN : ci' = IF payloadIsObject THEN 1 ELSE 5
  /\ UNCHANGED <<stats, foundTotals, durationMs, tokensPerSecond,
                 sessionVars, catalogVars, pureVars>>

\* candidates[0]: data.usage
UsageMergeUsage ==
  /\ ci = 1
  /\ \E usageNode \in Nodes : mergeStep(usageNode)
  /\ ci' = 2
  /\ UNCHANGED <<durationMs, tokensPerSecond, sessionVars, catalogVars,
                 pureVars>>

\* candidates[1]: data.statistics ?? data.stats ?? data.meta
UsageMergeStats ==
  /\ ci = 2
  /\ \E first \in Nodes, position \in 1..3 :
       LET statistics == IF position = 1 THEN first
                         ELSE IF position = 2 THEN [kind |-> "undefined"]
                         ELSE [kind |-> "null"]
           statsN == IF position = 2 THEN first
                     ELSE IF position = 1 THEN [kind |-> "string"]
                     ELSE [kind |-> "undefined"]
           meta == IF position = 3 THEN first ELSE [kind |-> "string"]
       IN mergeStep(coalesce(statistics, statsN, meta))
  /\ ci' = 3
  /\ UNCHANGED <<durationMs, tokensPerSecond, sessionVars, catalogVars,
                 pureVars>>

\* candidates[2]: the payload itself, which is an object here
UsageMergeData ==
  /\ ci = 3
  /\ \E record \in Records : mergeStep([kind |-> "object", fields |-> record])
  /\ ci' = 4
  /\ UNCHANGED <<durationMs, tokensPerSecond, sessionVars, catalogVars,
                 pureVars>>

UsageFinish ==
  /\ ci = 4
  /\ stats' = synthesizeTotal(stats)
  /\ ci' = 5
  /\ UNCHANGED <<foundTotals, durationMs, tokensPerSecond, sessionVars,
                 catalogVars, pureVars>>

\* The success path after extractUsage (main.ts:1077-1083).  The rate is
\* kept as the whole part of tokens * 1000 / durationMs.
rate(usage, ms) ==
  LET completionTokens == IF usage.completionTokens # undefined
                          THEN usage.completionTokens ELSE usage.totalTokens
  IN \* completionTokens && durationMs > 0: undefined and 0 are both falsy
     IF completionTokens # undefined /\ completionTokens # 0 /\ ms > 0
     THEN (completionTokens * 1000) \div ms
     ELSE undefined

UsageRate ==
  /\ ci = 5
  /\ \E ms \in 0..MaxMs :
       /\ durationMs' = ms
       /\ tokensPerSecond' = rate(stats, ms)
  /\ ci' = 6
  /\ UNCHANGED <<stats, foundTotals, sessionVars, catalogVars, pureVars>>

NextUsage ==
  \/ UsageStart
  \/ UsageMergeUsage
  \/ UsageMergeStats
  \/ UsageMergeData
  \/ UsageFinish
  \/ UsageRate

SpecUsage == Init /\ [][NextUsage]_vars

----------------------------------------------------------------------------
(* extractTextsFromPayload over the response bodies studied.              *)

\* The response bodies studied.  Each key carries its own letters, so that a
\* returned text tells which key it was read from.
TextValues ==
  {Undef, Str(<<"t">>), Arr(<<>>), Arr(<<Str(<<"t">>)>>),
   Arr(<<Str(<<>>), Null, Str(<<"t">>)>>)}

OutputsValues ==
  {Undef, Str(<<"o">>), Arr(<<>>), Arr(<<Obj([text |-> Str(<<"o">>)])>>),
   Arr(<<Null, Obj([output_text |-> Str(<<"p">>)]), Obj([text |-> Str(<<>>)]),
         Obj([text |-> Num(0), output_text |-> Str(<<"o">>)])>>)}

PartValues ==
  {Null, Obj([text |-> Str(<<"a">>)]), Obj([content |-> Str(<<"b">>)]),
   Obj([text |-> Str(<<>>), content |-> Str(<<"b">>)]), Obj([text |-> Num(0)])}

MessageValues ==
  {Undef, Null, Str(<<"m">>), EmptyObject, Obj([content |-> Null]),
   Obj([content |-> Str(<<"c">>)]), Obj([content |-> Str(<<>>)])}
  \cup {Obj([content |-> Arr(parts)]) : parts \in SeqsUpTo(PartValues, MaxParts)}

PlainChoice == Obj([text |-> Str(<<"c">>)])

ChoiceItems ==
  {Null, Str(<<"c">>), PlainChoice, Obj([text |-> Str(<<>>)]),
   Obj([text |-> Str(<<>>), message |-> Obj([content |-> Str(<<"c">>)])])}
  \cup {object([text |-> text, message |-> message]) :
          text \in {Undef, Num(0)}, message \in MessageValues}

ChoicesValues ==
  {Undef, Str(<<"c">>), Arr(<<>>)}
  \cup {Arr(<<choice>>) : choice \in ChoiceItems}
  \cup {Arr(<<choice, PlainChoice>>) : choice \in ChoiceItems}

GeneratedValues == {Undef, Str(<<"g">>), Str(<<>>), Num(0)}

Payloads ==
  {Null, Str(<<"g">>), Num(0), Arr(<<Str(<<"t">>)>>)}
  \cup {object([text |-> text, outputs |-> outputs, choices |-> choices,
                generated_text |-> generated]) :
          text \in TextValues, outputs \in OutputsValues,
          choices \in ChoicesValues, generated \in GeneratedValues}

InitTexts ==
  /\ InitSession
  /\ InitUsageIdle
  /\ InitCatalogIdle
  /\ arg \in Payloads
  /\ result = <<>>
  /\ done = FALSE

ExtractTexts ==
  /\ ~done
  /\ result' = extractTextsFromPayload(arg)
  /\ done' = TRUE
  /\ UNCHANGED <<arg, sessionVars, catalogVars, usageVars>>

SpecTexts == InitTexts /\ [][ExtractTexts]_vars

----------------------------------------------------------------------------
(* splitThinkingSegments over the texts studied.                           *)

InitSplit ==
  /\ InitSession
  /\ InitUsageIdle
  /\ InitCatalogIdle
  /\ arg \in Texts
  /\ result = <<>>
  /\ done = FALSE

Split ==
  /\ ~done
  /\ result' = splitThinkingSegments(arg)
  /\ done' = TRUE
  /\ UNCHANGED <<arg, sessionVars, catalogVars, usageVars>>

SpecSplit == InitSplit /\ [][Split]_vars

----------------------------------------------------------------------------
(* The request payload built by the submit listener (main.ts:988-1045).    *)

\* Number.NaN
NaN == -3

\* Number(value) for the field values tried.
Number(value) ==
  LET digits == trim(value)
  IN IF digits = <<"0">> THEN 0 ELSE IF digits = <<"1">> THEN 1 ELSE NaN

ensureNumber(value, fallback) ==
  IF trim(value) = <<>> THEN fallback
  ELSE LET parsed == Number(value)
       IN IF parsed = NaN THEN fallback ELSE parsed

RECURSIVE split(_, _)
\* input.split(separator)
split(input, separator) ==
  LET at == firstIndex(input, 1, {separator})
  IN IF at = 0 THEN <<input>>
     ELSE <<SubSeq(input, 1, at - 1)>>
          \o split(SubSeq(input, at + 1, Len(input)), separator)

\* The list of stop sequences, or undefined when it is empty.
parseStops(input) ==
  LET values == split(input, ",")
      items == SelectSeq([i \in DOMAIN values |-> trim(values[i])],
                         LAMBDA value : Len(value) > 0)
  IN IF Len(items) > 0 THEN Arr([i \in DOMAIN items |-> Str(items[i])])
     ELSE Undef

composePrompt(systemPrompt, userPrompt) ==
  LET trimmedSystem == trim(systemPrompt)
  IN IF trimmedSystem = <<>> THEN userPrompt
     ELSE trimmedSystem \o <<"\n", "\n">> \o userPrompt

\* defaults.minP ?? NaN
orNaN(value) == IF value = undefined THEN NaN ELSE value

\* if (!Number.isNaN(value)) payload.key = value
unlessNaN(value) == IF value = NaN THEN Undef ELSE Num(value)

\* payload.stop of the two OpenAI modes
stopOpenAi(stopSequences) ==
  IF stopSequences.t = "undefined" THEN Undef
  ELSE IF Len(stopSequences.v) = 1 THEN stopSequences.v[1]
  ELSE stopSequences

stopGenerateBare(stopSequences) == stopOpenAi(stopSequences)
\* payload.stop of vllm-generate
stopGenerate(stopSequences) ==
  IF stopSequences.t = "undefined" THEN Undef ELSE stopSequences

chatMessagesUntrimmed(systemPrompt, userPrompt) ==
  (IF systemPrompt # <<>>
   THEN <<Obj([role |-> Str(<<"system">>), content |-> Str(trim(systemPrompt))])>>
   ELSE <<>>)
  \o <<Obj([role |-> Str(<<"user">>), content |-> Str(userPrompt)])>>
\* messages of the openai-chat branch
chatMessages(systemPrompt, userPrompt) ==
  LET systemText == trim(systemPrompt)
  IN (IF systemText # <<>>
      THEN <<Obj([role |-> Str(<<"system">>), content |-> Str(systemText)])>>
      ELSE <<>>)
     \o <<Obj([role |-> Str(<<"user">>), content |-> Str(userPrompt)])>>

buildPayload(form, defaults) ==
  LET userPrompt == trim(form.prompt)
      maxTokens == ensureNumber(form.maxTokens, defaults.maxTokens)
      temperature == ensureNumber(form.temperature, defaults.temperature)
      topP == ensureNumber(form.topP, defaults.topP)
      stopSequences == parseStops(form.stopSequences)
  IN IF form.mode = "vllm-generate"
     THEN object([prompt |-> Str(composePrompt(form.systemPrompt, userPrompt)),
                  max_tokens |-> Num(maxTokens),
                  temperature |-> Num(temperature),
                  top_p |-> Num(topP),
                  min_p |-> unlessNaN(ensureNumber(form.minP, orNaN(defaults.minP))),
                  repetition_penalty |->
                    unlessNaN(ensureNumber(form.repetitionPenalty,
                                           orNaN(defaults.repetitionPenalty))),
                  stop |-> stopGenerate(stopSequences)])
     ELSE IF form.mode = "openai-completions"
     THEN object([model |-> Str(trim(form.model)),
                  prompt |-> Str(composePrompt(form.systemPrompt, userPrompt)),
                  max_tokens |-> Num(maxTokens),
                  temperature |-> Num(temperature),
                  top_p |-> Num(topP),
                  stop |-> stopOpenAi(stopSequences)])
     ELSE object([model |-> Str(trim(form.model)),
                  messages |-> Arr(chatMessages(form.systemPrompt, userPrompt)),
                  max_tokens |-> Num(maxTokens),
                  temperature |-> Num(temperature),
                  top_p |-> Num(topP),
                  stop |-> stopOpenAi(stopSequences)])

\* The values tried for the fields read while building.
PromptValues == {<<" ">>, <<" ", "a", " ">>}
ModelValues == {<<>>, <<"a", " ">>}
SystemPromptValues == {<<>>, <<" ">>, <<" ", "s">>}
StopValues ==
  {<<>>, <<" ">>, <<"E">>, <<" ", ",", " ">>, <<",", "E", ",">>,
   <<"E", ",", " ", "F">>}
NumberValues == {<<>>, <<" ">>, <<"0">>, <<"1">>, <<"x">>}

Forms ==
  [mode : ApiMode, prompt : PromptValues, model : ModelValues,
   endpoint : {<<"a">>}, systemPrompt : SystemPromptValues,
   stopSequences : StopValues, maxTokens : {<<>>, <<"1">>},
   temperature : {<<"1">>}, topP : {<<"1">>},
   minP : NumberValues, repetitionPenalty : {<<>>, <<"1">>}]

\* defaults of buildLayout: the stored settings, or the built-in value.
Defaults ==
  [maxTokens : {64}, temperature : {1}, topP : {1},
   minP : {undefined, 0, 1}, repetitionPenalty : {undefined, 1}]

InitBuild ==
  /\ InitSession
  /\ InitUsageIdle
  /\ InitCatalogIdle
  /\ arg \in [form : Forms, defaults : Defaults]
  /\ result = Undef
  /\ done = FALSE

\* The listener returns at a failed validation; no payload is built.
BuildRejected ==
  /\ ~done
  /\ validation(arg.form.prompt, arg.form.mode, arg.form.model,
                arg.form.endpoint) # ""
  /\ done' = TRUE
  /\ UNCHANGED <<arg, result, sessionVars, catalogVars, usageVars>>

Build ==
  /\ ~done
  /\ validation(arg.form.prompt, arg.form.mode, arg.form.model,
                arg.form.endpoint) = ""
  /\ result' = buildPayload(arg.form, arg.defaults)
  /\ done' = TRUE
  /\ UNCHANGED <<arg, sessionVars, catalogVars, usageVars>>

NextBuild ==
  \/ BuildRejected
  \/ Build

SpecBuild == InitBuild /\ [][NextBuild]_vars

----------------------------------------------------------------------------
(* listModels (api.ts:150-220), from the parsed response body on.          *)

\* typeof value === "string" ? value : undefined
stringOrUndefined(value) == IF isString(value) THEN value ELSE Undef

\* The callback of data.data.map, also the object case of data.models.map.
mapModelRecord(item) ==
  IF ~isObjectLike(item) THEN Undef
  ELSE LET id == get(item, "id")
       IN IF ~isString(id) \/ id.v = <<>> THEN Undef
          ELSE Obj([id |-> id,
                    object |-> stringOrUndefined(get(item, "object")),
                    ownedBy |-> stringOrUndefined(get(item, "owned_by"))])

\* { id: item }
bareModel(item) == Obj([id |-> item, object |-> Undef, ownedBy |-> Undef])

mapModelsItem(item) ==
  IF isString(item) THEN bareModel(item) ELSE mapModelRecord(item)

mapPayloadItem(item) == IF isString(item) THEN bareModel(item) ELSE Undef

\* .filter((item): item is ModelInfo => Boolean(item)): an object is truthy.
filterModels(items) == SelectSeq(items, LAMBDA item : item.t # "undefined")

listModels(payload) ==
  IF ~isObjectLike(payload) THEN <<>>
  ELSE IF isArray(get(payload, "data"))
  THEN LET data == get(payload, "data").v
       IN filterModels([i \in DOMAIN data |-> mapModelRecord(data[i])])
  ELSE IF isArray(get(payload, "models"))
  THEN LET models == get(payload, "models").v
       IN filterModels([i \in DOMAIN models |-> mapModelsItem(models[i])])
  ELSE IF isArray(payload)
  THEN filterModels([i \in DOMAIN payload.v |-> mapPayloadItem(payload.v[i])])
  ELSE <<>>

ModelItems ==
  {Null, Num(0), Str(<<>>), Str(<<"m">>), EmptyObject, Obj([id |-> Num(0)]),
   Obj([id |-> Str(<<>>)]), Obj([id |-> Str(<<"m">>)]),
   Obj([id |-> Str(<<"n">>), object |-> Str(<<"model">>), owned_by |-> Num(0)])}

ModelLists == {Arr(items) : items \in SeqsUpTo(ModelItems, MaxModels)}

CatalogPayloads ==
  {Null, Str(<<"m">>), Num(0), EmptyObject}
  \cup ModelLists
  \cup {object([data |-> data, models |-> models]) :
          data \in ModelLists,
          models \in {Undef, Arr(<<Str(<<"m">>)>>), Arr(<<Str(<<>>)>>)}}
  \cup {object([data |-> data, models |-> models]) :
          data \in {Undef, Str(<<"d">>)}, models \in ModelLists}

InitModels ==
  /\ InitSession
  /\ InitUsageIdle
  /\ InitCatalogIdle
  /\ arg \in CatalogPayloads
  /\ result = <<>>
  /\ done = FALSE

ListModels ==
  /\ ~done
  /\ result' = listModels(arg)
  /\ done' = TRUE
  /\ UNCHANGED <<arg, sessionVars, catalogVars, usageVars>>

SpecModels == InitModels /\ [][ListModels]_vars

----------------------------------------------------------------------------
(* The turn states of the specification, read off the entry's flags.       *)

State(entry) ==
  IF entry.pending THEN "Pending"
  ELSE IF entry.error
  THEN (IF entry.content = CancelNotice THEN "Cancelled" ELSE "Errored")
  ELSE "Complete"

Terminal == {"Complete", "Errored", "Cancelled"}

PendingTurns == {i \in DOMAIN conversation : conversation[i].pending}

AnyPending == PendingTurns # {}

----------------------------------------------------------------------------
(* Claims *)

\* C1: in every reachable state at most one assistant turn is Pending.
C1_AtMostOnePending == Cardinality(PendingTurns) <= 1

\* C2: a submit invoked while a turn is Pending fails with a validation
\* error and leaves the session unchanged: no turn appended, no request
\* issued, the active cancellation handle not replaced.
C2_SubmitWhilePendingRejected ==
  [][(SubmitEvent /\ AnyPending) =>
       (/\ conversation' = conversation
        /\ calls' = calls
        /\ controller' = controller
        /\ errorBox' # "")]_vars

\* C3: every assistant turn is created Pending and makes one transition, to
\* Complete, Errored or Cancelled; a terminal turn never changes state again.
C3_SingleTransition ==
  [][\A i \in DOMAIN conversation' :
       IF i \in DOMAIN conversation
       THEN /\ State(conversation[i]) \in Terminal =>
                 State(conversation'[i]) = State(conversation[i])
            /\ State(conversation'[i]) # State(conversation[i]) =>
                 /\ conversation[i].role = "assistant"
                 /\ State(conversation[i]) = "Pending"
                 /\ State(conversation'[i]) \in Terminal
       ELSE conversation'[i].role = "assistant" =>
                 State(conversation'[i]) = "Pending"]_vars

\* C3 witness: one turn is Complete and its "fresh" timer has fired, another
\* is Errored, and the transport has reported to both calls.
C3_Witness ==
  \E i, j \in DOMAIN conversation :
    /\ State(conversation[i]) = "Complete"
    /\ ~conversation[i].fresh
    /\ i \notin timers
    /\ State(conversation[j]) = "Errored"
    /\ \A k \in DOMAIN calls : calls[k].pc = "done"

StateFor(outcome) ==
  CASE outcome = "ok" -> "Complete"
    [] outcome = "AbortError" -> "Cancelled"
    [] OTHER -> "Errored"

C5_CancelOnlySignals ==
  [][Cancel =>
       (/\ conversation' = conversation
        /\ UNCHANGED <<messageCounter, controller, timers, submitDisabled,
                       cancelDisabled, status, errorBox>>
        /\ ~AnyPending => UNCHANGED vars
        /\ \A k \in DOMAIN calls :
             calls'[k] # calls[k] =>
               /\ k = controller
               /\ calls'[k].aborted
               /\ calls'[k].pc = calls[k].pc
               /\ calls'[k].target = calls[k].target)]_vars

\* C5 witness: cancel has signalled the active handle and the turn of that
\* request is still Pending with its content as created.
C5_Witness ==
  \E k \in DOMAIN calls :
    /\ calls[k].aborted
    /\ calls[k].pc = "await"
    /\ controller = k
    /\ conversation[calls[k].target].pending
    /\ conversation[calls[k].target].content = WaitingNotice

Ready == ~AnyPending /\ controller = 0 /\ ~submitDisabled

\* C6: whatever the outcome, the settle step leaves the turn terminal, the
\* handle cleared and the submit control enabled; and, the transport
\* reporting eventually, every Pending turn becomes terminal and the session
\* becomes ready again.
C6_SettleClearsHandle ==
  /\ [][\A k \in DOMAIN calls :
          Settle(k) =>
            /\ State(conversation'[calls[k].target]) \in Terminal
            /\ controller' = 0
            /\ ~submitDisabled'
            /\ cancelDisabled']_vars
  /\ \A i \in 1..(2 * MaxSubmits) :
       (i \in PendingTurns) ~> (i \notin PendingTurns)
  /\ []<>Ready

\* C6 witness: a request that failed has been settled, and the session is
\* ready.
C6_Witness ==
  /\ Ready
  /\ \E k \in DOMAIN calls :
       /\ calls[k].outcome = "Error"
       /\ calls[k].pc = "done"
       /\ State(conversation[calls[k].target]) = "Errored"

\* C7: a turn settled by cancellation carries the cancellation notice and is
\* not marked or reported as a failed (error) turn.
C7_CancelledNotError ==
  \A k \in DOMAIN calls :
    (calls[k].pc = "done" /\ calls[k].outcome = "AbortError") =>
      LET entry == conversation[calls[k].target]
      IN /\ entry.content = CancelNotice
         /\ ~entry.error
         /\ formatMetadata(entry) # "Error"

\* C8: a submit whose trimmed prompt is empty, or whose mode is an OpenAI
\* mode with an empty trimmed model, shows a validation error and appends no
\* turn, creates no handle and issues no request: no step that does any of
\* these, or that leaves the error box empty, is such a submit.
C8_InvalidSubmitRejected ==
  [][(\/ errorBox' = ""
      \/ conversation' # conversation
      \/ messageCounter' # messageCounter
      \/ controller' # controller
      \/ calls' # calls
      \/ submitDisabled' # submitDisabled
      \/ cancelDisabled' # cancelDisabled)
     => ~ \E promptValue \in Strings, mode \in ApiMode,
             modelValue \in FieldValues, endpointValue \in EndpointValues :
            /\ \/ trim(promptValue) = <<>>
               \/ mode # "vllm-generate" /\ trim(modelValue) = <<>>
            /\ Submit(promptValue, mode, modelValue, endpointValue)]_vars

\* C8 witness: the model-required error is shown, after an accepted submit
\* has settled, and the turn list holds that one exchange only.
C8_Witness ==
  /\ errorBox = "Model ID is required for OpenAI-compatible endpoints."
  /\ Len(conversation) = 2
  /\ Len(calls) = 1
  /\ controller = 0

C10_FirstWriteWins ==
  [][\A field \in {"promptTokens", "completionTokens", "totalTokens"} :
       (ci \in {2, 3} /\ stats[field] # undefined) =>
         stats'[field] = stats[field]]_vars

\* C11: after extractUsage, totalTokens is promptTokens + completionTokens
\* when no total field was found in any candidate and both operands were;
\* a total that was found, 0 included, is kept; with an operand missing and
\* no total found, totalTokens stays absent.
C11_TotalSynthesis ==
  ci >= 5 =>
    IF foundTotals # {} THEN stats.totalTokens \in foundTotals
    ELSE IF stats.promptTokens # undefined /\ stats.completionTokens # undefined
    THEN stats.totalTokens = stats.promptTokens + stats.completionTokens
    ELSE stats.totalTokens = undefined

\* C11 witness: no total field was met, both operands were, and the total
\* is their sum.
C11_Witness ==
  /\ ci = 5
  /\ foundTotals = {}
  /\ stats.promptTokens = 1
  /\ stats.completionTokens = 1
  /\ stats.totalTokens = 2

\* C20: tokensPerSecond is set exactly when the elapsed time is positive and
\* a completion count, or failing that a total count, is known (0 included),
\* and is computed from the completion count when that is known.
C20_RateSetWhenCountKnown ==
  ci = 6 =>
    LET known == IF stats.completionTokens # undefined
                 THEN stats.completionTokens ELSE stats.totalTokens
    IN /\ (tokensPerSecond # undefined) <=> (durationMs > 0 /\ known # undefined)
       /\ tokensPerSecond # undefined =>
            tokensPerSecond = (known * 1000) \div durationMs

----------------------------------------------------------------------------
\* The first of text, outputs, choices that is an array, else generated_text
\* when it is a string, else "none".
selectedKey(payload) ==
  IF ~isObjectLike(payload) THEN "none"
  ELSE IF get(payload, "text").t = "array" THEN "text"
  ELSE IF get(payload, "outputs").t = "array" THEN "outputs"
  ELSE IF get(payload, "choices").t = "array" THEN "choices"
  ELSE IF get(payload, "generated_text").t = "string" THEN "generated_text"
  ELSE "none"

\* The texts each key of the studied bodies can give.
LettersOf(key) ==
  CASE key = "text" -> {<<"t">>, <<"null">>}
    [] key = "outputs" -> {<<"o">>, <<"p">>}
    [] key = "generated_text" -> {<<"g">>, <<>>}
    [] key = "choices" -> SeqsUpTo({"a", "b", "c"}, MaxParts) \ {<<>>}
    [] OTHER -> {}

\* C12: extractTexts selects its rule by structure only, in the order text
\* array, outputs array, choices array, generated_text string.  The first of
\* these keys present with the right type decides the result, also when it
\* yields the empty sequence; the result is what that key alone would give,
\* and every returned text comes from that key.  A payload matching no rule,
\* or a non-object, yields the empty sequence.
C12_StructuralPriority ==
  done =>
    LET key == selectedKey(arg)
    IN /\ key = "none" => result = <<>>
       /\ key # "none" =>
            /\ result = extractTextsFromPayload(Obj(key :> get(arg, key)))
            /\ \A i \in DOMAIN result : result[i] \in LettersOf(key)
       /\ (key \in {"text", "outputs", "choices"} /\ get(arg, key).v = <<>>)
            => result = <<>>

\* The text array is present and empty while outputs and choices would give
\* texts: the result is empty.
C12_Witness ==
  /\ done
  /\ selectedKey(arg) = "text"
  /\ get(arg, "text").v = <<>>
  /\ isArrayNonEmpty(get(arg, "outputs"))
  /\ isArrayNonEmpty(get(arg, "choices"))
  /\ isString(get(arg, "generated_text"))
  /\ result = <<>>

\* What the specification says one element of a message.content array
\* gives: its text string, else its content string, else the empty string.
elementText(element) ==
  IF element.t = "object" /\ "text" \in DOMAIN element.v
     /\ element.v["text"].t = "string"
  THEN element.v["text"].v
  ELSE IF element.t = "object" /\ "content" \in DOMAIN element.v
          /\ element.v["content"].t = "string"
  THEN element.v["content"].v
  ELSE <<>>

\* The text a choices item gives, as a sequence of one text, or of none for
\* an item with neither a text nor a message.content to take.
choiceText(item) ==
  IF item.t # "object" THEN <<>>
  ELSE IF "text" \in DOMAIN item.v /\ item.v["text"].t = "string"
  THEN <<item.v["text"].v>>
  ELSE IF "message" \in DOMAIN item.v /\ item.v["message"].t = "object"
          /\ "content" \in DOMAIN item.v["message"].v
  THEN LET content == item.v["message"].v["content"]
       IN IF content.t = "string" THEN <<content.v>>
          ELSE IF content.t = "array"
          THEN <<join([i \in DOMAIN content.v |-> elementText(content.v[i])])>>
          ELSE <<>>
  ELSE <<>>

\* Whether the item has no string text field, the case C13 is about.
withoutText(item) ==
  item.t = "object"
  /\ ~("text" \in DOMAIN item.v /\ item.v["text"].t = "string")

RECURSIVE flatten(_)
flatten(seqs) == IF seqs = <<>> THEN <<>> ELSE Head(seqs) \o flatten(Tail(seqs))

\* C13 as stated: for a choices item without a string text field the string
\* message.content is taken, or the concatenation over an array content, and
\* only items with neither are dropped.
C13_ContentTaken ==
  (done /\ selectedKey(arg) = "choices") =>
    LET choices == get(arg, "choices").v
    IN result = flatten([i \in DOMAIN choices |->
                  IF withoutText(choices[i]) THEN choiceText(choices[i])
                  ELSE SelectSeq(choiceText(choices[i]), LAMBDA s : s # <<>>)])

\* C13, amended: for a choices item without a string text field the string
\* message.content is taken, or the in-order concatenation, with no
\* separator, of each element's text string, else content string, else the
\* empty string; an item with neither, and an item whose text so obtained is
\* empty, is dropped.
C13_NonEmptyContentTaken ==
  (done /\ selectedKey(arg) = "choices") =>
    LET choices == get(arg, "choices").v
    IN result = flatten([i \in DOMAIN choices |->
                  SelectSeq(choiceText(choices[i]), LAMBDA s : s # <<>>)])

\* {choices:[{message:{content:[{text:"a"},{content:"b"}]}}]} gives ["ab"].
C13_Witness ==
  /\ done
  /\ arg = Obj([choices |-> Arr(<<Obj([message |-> Obj([content |->
              Arr(<<Obj([text |-> Str(<<"a">>)]), Obj([content |-> Str(<<"b">>)])>>)])])>>)])
  /\ result = <<<<"a", "b">>>>

----------------------------------------------------------------------------
\* Whether the text holds a whole think region, its tags in any case.
hasRegion(text) ==
  \E i, j \in DOMAIN text : i < j /\ text[i] \in OpenTags /\ text[j] \in CloseTags

\* C14: split finds every non-overlapping think region, matching the tag
\* name in any case: no whole region is left in visible, and reasoning holds
\* the regions' trimmed inner texts from left to right, those empty after
\* trimming left out.
C14_RegionsAnyCase ==
  done =>
    /\ ~hasRegion(result.visible)
    /\ result.reasoning = segments(arg)
    /\ \A i \in DOMAIN result.reasoning : result.reasoning[i] # <<>>

----------------------------------------------------------------------------
\* A payload has been built.
Built == done /\ result.t = "object"

\* C15: the stop field of a built request is absent when there are no stop
\* sequences; in vllm-generate mode it is always the full ordered sequence,
\* also for exactly one stop sequence; in the two OpenAI modes it is a bare
\* string for exactly one stop sequence and the full sequence otherwise.
C15_StopField ==
  Built =>
    LET stops == parseStops(arg.form.stopSequences)
        stop == get(result, "stop")
    IN IF stops.t = "undefined" THEN ~hasKey(result, "stop")
       ELSE IF arg.form.mode = "vllm-generate" \/ Len(stops.v) # 1
       THEN stop.t = "array" /\ stop.v = stops.v
       ELSE stop.t = "string" /\ stop.v = stops.v[1].v

\* One stop sequence in vllm-generate mode is sent as a sequence of one.
C15_Witness ==
  /\ Built
  /\ arg.form.mode = "vllm-generate"
  /\ arg.form.stopSequences = <<",", "E", ",">>
  /\ get(result, "stop").t = "array"
  /\ get(result, "stop").v = <<Str(<<"E">>)>>

\* C16: in openai-chat mode the messages are a system message followed by
\* exactly one user message when the trimmed system prompt is non-empty, and
\* exactly the one user message when it is empty or blank; the user message
\* is always last.
C16_ChatMessages ==
  (Built /\ arg.form.mode = "openai-chat") =>
    LET messages == get(result, "messages").v
        system == trim(arg.form.systemPrompt)
        last == messages[Len(messages)]
    IN /\ Len(messages) = IF system # <<>> THEN 2 ELSE 1
       /\ last.v["role"].v = <<"user">>
       /\ last.v["content"].v = trim(arg.form.prompt)
       /\ system # <<>> =>
            /\ messages[1].v["role"].v = <<"system">>
            /\ messages[1].v["content"].v = system

\* A blank system prompt gives the user message alone.
C16_Witness ==
  /\ Built
  /\ arg.form.mode = "openai-chat"
  /\ arg.form.systemPrompt = <<" ">>
  /\ Len(get(result, "messages").v) = 1

\* Whether the field holds a number of its own.
provided(value) == ensureNumber(value, NaN) # NaN

\* C17: min_p and repetition_penalty are in a built request only in
\* vllm-generate mode and only when their field currently holds a value.
C17_OnlyWhenProvided ==
  Built =>
    /\ hasKey(result, "min_p") =>
         arg.form.mode = "vllm-generate" /\ provided(arg.form.minP)
    /\ hasKey(result, "repetition_penalty") =>
         arg.form.mode = "vllm-generate" /\ provided(arg.form.repetitionPenalty)

----------------------------------------------------------------------------
\* C18: every model descriptor returned by the catalog parser has a
\* non-empty string id, whichever rule produced it.
C18_NonEmptyId ==
  done =>
    \A i \in DOMAIN result :
      /\ result[i].v["id"].t = "string"
      /\ result[i].v["id"].v # <<>>

----------------------------------------------------------------------------
\* C19: a call whose promise was fulfilled by a response body never leaves
\* its turn Errored, whatever the shape of the body: the turn settles
\* Complete; when the body gave no texts its content is the "no text
\* returned" notice, and when the texts gave reasoning but nothing visible it
\* is the "hidden reasoning only" notice.
C19_UnrecognizedShapeCompletes ==
  \A k \in DOMAIN calls :
    (calls[k].pc = "done" /\ calls[k].outcome = "ok") =>
      LET entry == conversation[calls[k].target]
          texts == extractTextsFromPayload(calls[k].response)
      IN /\ State(entry) = "Complete"
         /\ texts = <<>> => entry.content = NoTextReturned
         /\ (visiblePartsOf(texts) = <<>> /\ reasoningSegmentsOf(texts) # <<>>)
              => entry.content = HiddenReasoningOnly

\* A turn settled from the body {choices: "a"}, which matches no rule.
C19_Witness ==
  \E k \in DOMAIN calls :
    /\ calls[k].pc = "done"
    /\ calls[k].outcome = "ok"
    /\ calls[k].response = Obj([choices |-> Str(<<"a">>)])
    /\ State(conversation[calls[k].target]) = "Complete"
    /\ conversation[calls[k].target].content = NoTextReturned

----------------------------------------------------------------------------
\* A step of the catalog: a mode change, a refresh click, or the return of a
\* listing request to loadModels.
CatalogStep == ModeChanges \/ RefreshClick \/ ListingSucceeds \/ ListingFails

\* C21: a catalog refresh running beside a generation request never changes
\* the turn list or a turn: no step of the catalog changes the conversation,
\* and every step that changes it is a submit, a settle or the timer that a
\* settle started.
C21_RefreshLeavesTurns ==
  [][/\ CatalogStep => UNCHANGED conversation
     /\ conversation' # conversation
          => (SubmitEvent \/ Settles \/ FreshTimerFires)]_vars

\* A listing request has returned an empty list, which makes loadModels
\* call updateTokenStatsDisplay, and another is in flight while a turn is
\* Pending.
C21_Witness ==
  /\ AnyPending
  /\ \E k \in DOMAIN loads : loads[k].pc = "await"
  /\ \E k \in DOMAIN loads : loads[k].pc = "done"
  /\ modelList = <<>>
  /\ ~loadingModels

----------------------------------------------------------------------------
\* Turn i exists and carries the fresh flag.
FreshAt(i) == i \in DOMAIN conversation /\ conversation[i].fresh

\* C22: the fresh flag is set only by the step that takes a Pending turn to
\* Complete; the step of its timer clears the flag of that turn and changes
\* nothing else of any turn, and changes nothing at all when the flag is no
\* longer set; a flag that is set is cleared in the end.
C22_FreshFlag ==
  /\ [][\A i \in DOMAIN conversation' :
          (conversation'[i].fresh
           /\ (i \notin DOMAIN conversation \/ ~conversation[i].fresh))
            => /\ i \in DOMAIN conversation
               /\ State(conversation[i]) = "Pending"
               /\ State(conversation'[i]) = "Complete"]_vars
  /\ [][\A target \in timers :
          FreshTimer(target) =>
            /\ conversation' =
                 [conversation EXCEPT ![target].fresh = FALSE]
            /\ ~conversation[target].fresh => conversation' = conversation]_vars
  /\ \A i \in 1..(2 * MaxSubmits) : FreshAt(i) ~> ~FreshAt(i)

\* A Complete assistant turn whose flag its timer has cleared.
C22_Witness ==
  \E i \in DOMAIN conversation :
    /\ conversation[i].role = "assistant"
    /\ State(conversation[i]) = "Complete"
    /\ ~conversation[i].fresh
    /\ i \notin timers

\* The handle is defined and some turn is Pending, or neither.
HandleIffPending == (controller # 0) <=> AnyPending

\* C23: between handlers the cancellation handle is defined if and only if
\* some assistant turn is Pending, and it is then the handle of the request
\* of every Pending turn, so that a settle of one request never clears or
\* replaces the handle of another request that is still pending.
C23_HandleIffPending ==
  /\ HandleIffPending
  /\ \A k \in DOMAIN calls :
       conversation[calls[k].target].pending => controller = k

----------------------------------------------------------------------------
\* Listing request k is still in flight.
InFlight(k) == k \in DOMAIN loads /\ loads[k].pc = "await"

\* C24: the loading flag is true and the refresh control disabled whenever
\* a listing request is in flight; a listing response changes the model
\* list only if it is that of the most recently started request and that
\* request was made for the mode now selected; the response of a request
\* superseded by a later one changes neither the model list nor the loading
\* flag.
C24_LatestListingOnly ==
  /\ [](\A k \in DOMAIN loads : InFlight(k) => loadingModels /\ refreshDisabled)
  /\ [][\A k \in DOMAIN loads : \A listing \in Listings(k) :
          ListingSuccess(k, listing) =>
            /\ ~(k = Len(loads) /\ loads[k].mode = apiMode)
                 => UNCHANGED modelList
            /\ k < Len(loads) => UNCHANGED loadingModels]_vars

====
